---- MODULE Spec2Model ----
(***************************************************************************)
(* State-machine model of disparrange.py: one run of the tool, from the    *)
(* parsed command line to process exit.  The environment of a run is the   *)
(* command line (args), the contents of the JSON setups file as read by    *)
(* load_display_setups (setups_json) and the text xrandr prints when it    *)
(* is queried (xrandr_stdout); the last two are <<>> until they are read.  *)
(* Everything the run does that is visible from outside (lines printed,    *)
(* subprocesses started) is appended to trace in program order.            *)
(***************************************************************************)
EXTENDS Integers, Sequences, FiniteSets, TLC

VARIABLES args, setups_json, xrandr_stdout, pc, display_setup,
          available_displays, arg_groups, i, xrandr_args, result,
          exit_status, trace

vars == <<args, setups_json, xrandr_stdout, pc, display_setup,
          available_displays, arg_groups, i, xrandr_args, result,
          exit_status, trace>>

(***************************************************************************)
(* Bounds of the model.                                                    *)
(***************************************************************************)
\* longest list of output specifications in a setup
MaxSetupLen == 2
\* largest number of outputs xrandr reports
MaxDisplays == 3

\* Python's None, and a missing key of a JSON object
None == <<>>

\* output names the setups file mentions
SetupOutputs == {"eDP-1", "HDMI-1"}

\* output names xrandr can report: those, and one no setup mentions
OutputNames == SetupOutputs \cup {"VGA-1"}

\* the setup defined in the JSON file, and a name the file does not define
DefinedSetup == "home"
UndefinedSetup == "work"

\* sequences over S of length 0..n
SeqUpTo(S, n) == UNION {[1..k -> S] : k \in 0..n}

\* sequences over S without repeated elements
IsInjective(s) == \A a, b \in 1..Len(s) : s[a] = s[b] => a = b

(***************************************************************************)
(* Text helpers.                                                           *)
(***************************************************************************)
RECURSIVE Join(_, _)
\* sep.join(words)
Join(sep, words) ==
    IF Len(words) = 0 THEN ""
    ELSE IF Len(words) = 1 THEN words[1]
    ELSE words[1] \o sep \o Join(sep, Tail(words))

\* f'{pair[0]}x{pair[1]}'
FormatPair(pair) == ToString(pair[1]) \o "x" \o ToString(pair[2])

\* mode_props[0].split('x') for the mode strings xrandr prints in this model
SplitX(token) ==
    CASE token = "1920x1080" -> <<"1920", "1080">>
      [] token = "1024x768"  -> <<"1024", "768">>
      [] OTHER               -> <<token>>

(***************************************************************************)
(* Observable events, in program order.                                    *)
(***************************************************************************)
StdoutEvent(text) == [kind |-> "stdout", text |-> text, argv |-> <<>>]
StderrEvent(text) == [kind |-> "stderr", text |-> text, argv |-> <<>>]
\* subprocess.run(argv)
RunEvent(argv)    == [kind |-> "run", text |-> "", argv |-> argv]

(***************************************************************************)
(* class OutputDevice                                                      *)
(***************************************************************************)
OutputDevice(name, is_connected) ==
    [name |-> name, is_connected |-> is_connected, modes |-> <<>>]

add_mode(display, resolution) ==
    [display EXCEPT !.modes = Append(@, resolution)]

(***************************************************************************)
(* get_available_displays: the parse of xrandr's report.  A line is a      *)
(* record: indent says whether it starts with a space, words is            *)
(* line.split().  new_display is <<>> for None and <<d>> for a device.     *)
(***************************************************************************)
RECURSIVE ParseLines(_, _, _)
ParseLines(lines, displays, new_display) ==
    IF Len(lines) = 0
    THEN displays \o new_display
    ELSE LET line == Head(lines) IN
         IF ~line.indent /\ line.words[1] = "Screen"
         THEN ParseLines(Tail(lines), displays, new_display)
         ELSE IF ~line.indent
         THEN ParseLines(Tail(lines), displays \o new_display,
                         <<OutputDevice(line.words[1],
                                        line.words[2] = "connected")>>)
         ELSE ParseLines(Tail(lines), displays,
                         <<add_mode(new_display[1], SplitX(line.words[1]))>>)

get_available_displays(stdout) == ParseLines(stdout, <<>>, <<>>)

(***************************************************************************)
(* The reports xrandr can print: a Screen line, then for every output a    *)
(* header line and, for a connected output, a mode line.  xrandr names     *)
(* every output once.                                                      *)
(***************************************************************************)
ScreenLine == [indent |-> FALSE, words |-> <<"Screen", "0:">>]
HeaderLine(name, connected) ==
    [indent |-> FALSE,
     words  |-> <<name, IF connected THEN "connected" ELSE "disconnected">>]
ModeLine == [indent |-> TRUE, words |-> <<"1920x1080", "60.00*+">>]

RECURSIVE ReportLines(_, _)
ReportLines(names, connected) ==
    IF Len(names) = 0 THEN <<>>
    ELSE <<HeaderLine(names[1], names[1] \in connected)>>
         \o (IF names[1] \in connected THEN <<ModeLine>> ELSE <<>>)
         \o ReportLines(Tail(names), connected)

XrandrReports ==
    {<<ScreenLine>> \o ReportLines(names, connected) :
        names \in {s \in SeqUpTo(OutputNames, MaxDisplays) : IsInjective(s)},
        connected \in SUBSET OutputNames}

(***************************************************************************)
(* The setups file: {"home": [ {"output": .., "mode": .., "pos": ..} ]}.   *)
(* mode and pos are None when the key is missing.                          *)
(***************************************************************************)
OutputSpecs ==
    [output : SetupOutputs, mode : {None, <<1920, 1080>>},
     pos : {None, <<1920, 0>>}]

SetupFiles ==
    {<<[name |-> DefinedSetup, setups |-> p]>> :
        p \in SeqUpTo(OutputSpecs, MaxSetupLen)}

\* display_setups.get(setup_name): <<>> for None, <<list>> when defined
RECURSIVE DictGet(_, _)
DictGet(display_setups, setup_name) ==
    IF Len(display_setups) = 0 \/ setup_name = None THEN None
    ELSE IF display_setups[1].name = setup_name[1]
         THEN <<display_setups[1].setups>>
         ELSE DictGet(Tail(display_setups), setup_name)

\* display_setups.keys()
Keys(display_setups) ==
    [k \in 1..Len(display_setups) |-> display_setups[k].name]

(***************************************************************************)
(* arg_groups: a Python dict, which keeps insertion order.  It is a        *)
(* sequence of entries; a key is a str or an OutputDevice object.  An      *)
(* OutputDevice defines neither __eq__ nor __hash__, so as a key it is     *)
(* its identity, here its index in available_displays.                     *)
(***************************************************************************)
StrKey(s) == [kind |-> "str", str |-> s, id |-> 0]
ObjKey(k) == [kind |-> "OutputDevice", str |-> "", id |-> k]

HasKey(d, key) == \E k \in 1..Len(d) : d[k].key = key

\* d[key] = val with the first value of a key kept (dict.setdefault)
DictSetKeepFirst(d, key, val) ==
    IF HasKey(d, key) THEN d ELSE Append(d, [key |-> key, val |-> val])

\* d[key] = val: an existing key keeps its place and takes the new value
DictSet(d, key, val) ==
    IF HasKey(d, key)
    THEN [k \in 1..Len(d) |->
            IF d[k].key = key THEN [key |-> key, val |-> val] ELSE d[k]]
    ELSE Append(d, [key |-> key, val |-> val])

RECURSIVE Values(_)
\* the concatenation of arg_groups.values(), in dict order
Values(d) == IF Len(d) = 0 THEN <<>> ELSE Head(d).val \o Values(Tail(d))

(***************************************************************************)
(* set_display_setup, the body of the loop over the setup's entries.       *)
(***************************************************************************)
\* the name is not compared: every display matches
MatchingDisplaysUnfiltered(displays, output) == displays

\* [disp for disp in available_displays if disp.name == output]
matching_displays(displays, output) ==
    SelectSeq(displays, LAMBDA disp : disp.name = output)

\* a disconnected output is taken for a missing one
NoMatchOrDisconnected(matching) ==
    Len(matching) = 0 \/ ~matching[1].is_connected

\* not matching_displays
NoMatch(matching) == Len(matching) = 0

\* display_args of one entry; pos already holds its default
DisplayArgs(output, mode, pos) ==
    <<"--output", output, "--pos", FormatPair(pos)>>
    \o (IF mode # None THEN <<"--mode", FormatPair(mode)>> ELSE <<"--auto">>)

\* setup.get('pos', (0, 0))
GetPos(setup) == IF setup.pos = None THEN <<0, 0>> ELSE setup.pos

\* a setup with a single group counts as empty
NoGroupsOrOne(groups) == Len(groups) <= 1

\* len(arg_groups) == 0
NoGroups(groups) == Len(groups) = 0

RECURSIVE OffLoop(_, _, _)
OffLoop(groups, displays, k) ==
    IF k > Len(displays) THEN groups
    ELSE IF ~HasKey(groups, StrKey(displays[k].name))
         THEN OffLoop(DictSet(groups, ObjKey(k),
                              <<"--output", displays[k].name, "--off">>),
                      displays, k + 1)
         ELSE OffLoop(groups, displays, k + 1)

RECURSIVE OffLoopFront(_, _, _)
OffLoopFront(groups, displays, k) ==
    IF k > Len(displays) THEN groups
    ELSE IF ~HasKey(groups, StrKey(displays[k].name))
         THEN OffLoopFront(<<[key |-> ObjKey(k),
                              val |-> <<"--output", displays[k].name,
                                        "--off">>]>> \o groups,
                           displays, k + 1)
         ELSE OffLoopFront(groups, displays, k + 1)

\* the off groups are put in front of the activation groups
AddOffGroupsFront(groups, displays) == OffLoopFront(groups, displays, 1)

\* for display in available_displays: ... arg_groups[display] = [.. '--off']
AddOffGroups(groups, displays) == OffLoop(groups, displays, 1)

\* the flag is never appended
DryRunArgsNoFlag(argv, dry_run) == argv

\* if dry_run: xrandr_args.append('--dryrun')
DryRunArgs(argv, dry_run) ==
    IF dry_run THEN Append(argv, "--dryrun") ELSE argv

(***************************************************************************)
(* Return values of set_display_setup.                                     *)
(***************************************************************************)
NoResult == [kind |-> "none", value |-> 0]
IntResult(n) == [kind |-> "int", value |-> n]
\* the object subprocess.run returns; value is its returncode
CompletedProcess(rc) == [kind |-> "CompletedProcess", value |-> rc]

\* exit statuses xrandr can end with
XrandrExitCodes == {0, 1}

\* the process has not ended
Running == -1

(***************************************************************************)
(* Initial state: the command line is parsed, nothing has run.             *)
(***************************************************************************)
ArgSets ==
    [setup : {None, <<DefinedSetup>>, <<UndefinedSetup>>},
     jsonfile : {"displaysetups.json"},
     dry_run : BOOLEAN, list_setups : BOOLEAN]

Init ==
    /\ args \in ArgSets
    /\ setups_json = <<>>
    /\ xrandr_stdout = <<>>
    /\ pc = "main"
    /\ display_setup = <<>>
    /\ available_displays = <<>>
    /\ arg_groups = <<>>
    /\ i = 0
    /\ xrandr_args = <<>>
    /\ result = NoResult
    /\ exit_status = Running
    /\ trace = <<>>

env == <<args, setups_json, xrandr_stdout>>
locals == <<display_setup, available_displays, arg_groups, i, xrandr_args>>

\* return value: the frame of set_display_setup and its locals are gone
Return(value) ==
    /\ result' = value
    /\ display_setup' = <<>>
    /\ available_displays' = <<>>
    /\ arg_groups' = <<>>
    /\ i' = 0
    /\ xrandr_args' = <<>>
    /\ pc' = "exit"

(***************************************************************************)
(* __main__: dispatch on the positional argument.                          *)
(***************************************************************************)
Main ==
    /\ pc = "main"
    /\ pc' = IF args.setup = None THEN "list" ELSE "set"
    /\ UNCHANGED <<env, locals, result, exit_status, trace>>

\* listing also queries xrandr
ListEventsProbing(setups_file, display_setups) ==
    <<RunEvent(<<"xrandr">>),
      StdoutEvent("The following setups are defined in " \o setups_file
                  \o ":"),
      StdoutEvent(Join("\n", Keys(display_setups)))>>

\* what list_display_setups does that is visible from outside
ListEvents(setups_file, display_setups) ==
    <<StdoutEvent("The following setups are defined in " \o setups_file
                  \o ":"),
      StdoutEvent(Join("\n", Keys(display_setups)))>>

list_display_setups ==
    /\ pc = "list"
    /\ \E display_setups \in SetupFiles :
          /\ setups_json' = display_setups
          /\ trace' = trace \o ListEvents(args.jsonfile, display_setups)
    /\ pc' = "exit"
    /\ UNCHANGED <<args, xrandr_stdout, locals, result, exit_status>>

(***************************************************************************)
(* set_display_setup                                                       *)
(***************************************************************************)
\* load the file and look the setup up
LookupSetup ==
    /\ pc = "set"
    /\ \E display_setups \in SetupFiles :
          /\ setups_json' = display_setups
          /\ LET found == DictGet(display_setups, args.setup) IN
             IF found = None
             THEN /\ trace' = Append(trace,
                         StderrEvent("Invalid display setup name: "
                                     \o args.setup[1]))
                  /\ Return(IntResult(1))
             ELSE /\ trace' = Append(trace,
                         StdoutEvent("Activating display setup "
                                     \o args.setup[1]))
                  /\ display_setup' = found[1]
                  /\ pc' = "probe"
                  /\ UNCHANGED <<available_displays, arg_groups, i,
                                 xrandr_args, result>>
    /\ UNCHANGED <<args, xrandr_stdout, exit_status>>

\* the query is run a second time
ProbeEventsRetry(argv) == <<RunEvent(argv), RunEvent(argv)>>

\* subprocess.run(['xrandr'], ...) of get_available_displays
ProbeEvents(argv) == <<RunEvent(argv)>>

\* available_displays = get_available_displays(); arg_groups = {}
ProbeDisplays ==
    /\ pc = "probe"
    /\ trace' = trace \o ProbeEvents(<<"xrandr">>)
    /\ \E stdout \in XrandrReports :
          /\ xrandr_stdout' = stdout
          /\ available_displays' = get_available_displays(stdout)
    /\ arg_groups' = <<>>
    /\ i' = 1
    /\ pc' = "loop"
    /\ UNCHANGED <<args, setups_json, display_setup, xrandr_args, result,
                   exit_status>>

\* one pass of: for setup in display_setup
SetupEntry ==
    /\ pc = "loop"
    /\ i <= Len(display_setup)
    /\ LET setup    == display_setup[i]
           output   == setup.output
           mode     == setup.mode
           pos      == GetPos(setup)
           matching == matching_displays(available_displays, output)
       IN
       IF NoMatch(matching)
       THEN /\ trace' = Append(trace,
                   StderrEvent("Output \"" \o output \o "\" does not exist"))
            /\ Return(IntResult(2))
       ELSE /\ trace' = IF ~matching[1].is_connected
                        THEN Append(trace,
                                StderrEvent("warning: " \o output
                                            \o " is not connected"))
                        ELSE trace
            /\ arg_groups' = DictSet(arg_groups, StrKey(output),
                                     DisplayArgs(output, mode, pos))
            /\ i' = i + 1
            /\ UNCHANGED <<pc, display_setup, available_displays,
                           xrandr_args, result>>
    /\ UNCHANGED <<env, exit_status>>

\* the loop is over: if len(arg_groups) == 0: return 3
CheckConfigured ==
    /\ pc = "loop"
    /\ i > Len(display_setup)
    /\ IF NoGroups(arg_groups)
       THEN /\ trace' = Append(trace,
                   StderrEvent("No connected displays were configured"
                               \o " - aborting"))
            /\ Return(IntResult(3))
       ELSE /\ pc' = "off"
            /\ UNCHANGED <<locals, result, trace>>
    /\ UNCHANGED <<env, exit_status>>

\* the loop that turns the other outputs off
TurnOthersOff ==
    /\ pc = "off"
    /\ arg_groups' = AddOffGroups(arg_groups, available_displays)
    /\ pc' = "assemble"
    /\ UNCHANGED <<env, display_setup, available_displays, i, xrandr_args,
                   result, exit_status, trace>>

\* xrandr_args = ['xrandr'] + all groups; the dry-run flag and print
AssembleCommand ==
    /\ pc = "assemble"
    /\ xrandr_args' = DryRunArgs(<<"xrandr">> \o Values(arg_groups),
                                 args.dry_run)
    /\ trace' = IF args.dry_run
                THEN Append(trace,
                        StdoutEvent("command: " \o Join(" ", xrandr_args')))
                ELSE trace
    /\ pc' = "run"
    /\ UNCHANGED <<env, display_setup, available_displays, arg_groups, i,
                   result, exit_status>>

\* return subprocess.run(xrandr_args)
RunXrandr ==
    /\ pc = "run"
    /\ \E rc \in XrandrExitCodes :
          /\ trace' = Append(trace, RunEvent(xrandr_args))
          /\ Return(CompletedProcess(rc))
    /\ UNCHANGED <<env, exit_status>>

\* the script ends: the value of set_display_setup is dropped, status 0
Exit ==
    /\ pc = "exit"
    /\ exit_status' = 0
    /\ pc' = "done"
    /\ UNCHANGED <<env, locals, result, trace>>

Next ==
    \/ Main
    \/ list_display_setups
    \/ LookupSetup
    \/ ProbeDisplays
    \/ SetupEntry
    \/ CheckConfigured
    \/ TurnOthersOff
    \/ AssembleCommand
    \/ RunXrandr
    \/ Exit

Spec == Init /\ [][Next]_vars

(***************************************************************************)
(* Vocabulary of the properties.  These read the environment of the run    *)
(* and the trace only; the expected tokens are written out from the        *)
(* documented command format, not taken from the builder above.            *)
(***************************************************************************)
\* the list of output specifications of the defined setup
Profile == setups_json[1].setups

\* the run is an apply run of the defined setup and has read the file
Applying == args.setup = <<DefinedSetup>> /\ setups_json # <<>>

\* xrandr has been queried
Probed == xrandr_stdout # <<>>

\* the outputs xrandr reports, in its order: the non-indented lines after
\* the Screen line
RECURSIVE HeaderNames(_)
HeaderNames(lines) ==
    IF Len(lines) = 0 THEN <<>>
    ELSE IF ~Head(lines).indent /\ Head(lines).words[1] # "Screen"
         THEN <<Head(lines).words[1]>> \o HeaderNames(Tail(lines))
         ELSE HeaderNames(Tail(lines))

ProbedSeq == HeaderNames(xrandr_stdout)
ProbedNames ==
    {xrandr_stdout[k].words[1] :
        k \in {j \in 1..Len(xrandr_stdout) :
                 /\ ~xrandr_stdout[j].indent
                 /\ xrandr_stdout[j].words[1] # "Screen"}}

\* the outputs xrandr reports as disconnected
Disconnected ==
    {xrandr_stdout[k].words[1] :
        k \in {j \in 1..Len(xrandr_stdout) :
                 /\ ~xrandr_stdout[j].indent
                 /\ xrandr_stdout[j].words[2] = "disconnected"}}

ProfileNames == {Profile[k].output : k \in 1..Len(Profile)}
AllProbed == ProfileNames \subseteq ProbedNames

RECURSIVE FirstMentions(_, _)
\* the output names of a profile in the order of their first mention
FirstMentions(profile, seen) ==
    IF Len(profile) = 0 THEN <<>>
    ELSE IF Head(profile).output \in seen
         THEN FirstMentions(Tail(profile), seen)
         ELSE <<Head(profile).output>>
              \o FirstMentions(Tail(profile), seen \cup {Head(profile).output})

\* the last specification of a profile that names n
LastSpec(profile, n) ==
    profile[CHOOSE k \in 1..Len(profile) :
               /\ profile[k].output = n
               /\ \A j \in (k + 1)..Len(profile) : profile[j].output # n]

\* --output n --pos XxY (--mode WxH | --auto)
ExpectedGroup(spec) ==
    <<"--output", spec.output, "--pos",
      IF spec.pos = None THEN "0x0"
      ELSE ToString(spec.pos[1]) \o "x" \o ToString(spec.pos[2])>>
    \o (IF spec.mode = None THEN <<"--auto">>
        ELSE <<"--mode",
               ToString(spec.mode[1]) \o "x" \o ToString(spec.mode[2])>>)

RECURSIVE ExpectedActivation(_, _)
ExpectedActivation(names, profile) ==
    IF Len(names) = 0 THEN <<>>
    ELSE ExpectedGroup(LastSpec(profile, Head(names)))
         \o ExpectedActivation(Tail(names), profile)

RECURSIVE ExpectedOff(_, _)
ExpectedOff(probed, mentioned) ==
    IF Len(probed) = 0 THEN <<>>
    ELSE (IF Head(probed) \in mentioned THEN <<>>
          ELSE <<"--output", Head(probed), "--off">>)
         \o ExpectedOff(Tail(probed), mentioned)

\* the command of the apply invocation, without a dry-run flag
ExpectedCommand ==
    <<"xrandr">>
    \o ExpectedActivation(FirstMentions(Profile, {}), Profile)
    \o ExpectedOff(ProbedSeq, ProfileNames)

IsQuery(e) == e.kind = "run" /\ e.argv = <<"xrandr">>
IsApply(e) == e.kind = "run" /\ Len(e.argv) > 1
Events == {trace[k] : k \in 1..Len(trace)}
RunEvents == SelectSeq(trace, LAMBDA e : e.kind = "run")
NoApply == \A e \in Events : ~IsApply(e)
Tokens(argv) == {argv[k] : k \in 1..Len(argv)}
\* argv without its last token when the run is a dry run
Body(argv) == IF args.dry_run THEN SubSeq(argv, 1, Len(argv) - 1) ELSE argv
Ended == pc \in {"exit", "done"}
KeysOf(d) == {d[k].key : k \in 1..Len(d)}

(***************************************************************************)
(* Properties.                                                             *)
(***************************************************************************)

\* C1: once the off groups are added, the keys of arg_groups are exactly
\* the probed output names, one key for every probed output.
C1_KeysAreProbedNames ==
    pc \in {"assemble", "run"} =>
        /\ KeysOf(arg_groups) = {StrKey(n) : n \in ProbedNames}
        /\ Len(arg_groups) = Cardinality(ProbedNames)

\* C2: when the setup names an output xrandr does not report, wherever in
\* the list, the apply invocation is never made and no command line is
\* printed, and the run ends with result 2 and without argument groups.
C2_UnknownOutputAborts ==
    (Applying /\ Probed /\ ~AllProbed) =>
        /\ NoApply
        /\ \A e \in Events : e.kind = "stdout" =>
              e.text = "Activating display setup " \o DefinedSetup
        /\ Ended => (result = IntResult(2) /\ arg_groups = <<>>
                     /\ xrandr_args = <<>>)

\* a run that ended with result 2 on the second entry, the first one known
C2_Witness ==
    /\ pc = "done" /\ Applying /\ result = IntResult(2)
    /\ Len(Profile) = 2
    /\ Profile[1].output \in ProbedNames
    /\ Profile[2].output \notin ProbedNames

\* C3: a run without the positional argument starts no subprocess at all,
\* whatever the dry-run and list flags are.
C3_ListNeverRunsXrandr ==
    args.setup = None => RunEvents = <<>>

\* a finished listing run that was given both flags
C3_Witness ==
    /\ pc = "done" /\ args.setup = None
    /\ args.dry_run /\ args.list_setups
    /\ Len(trace) = 2

\* C4: the command of the apply invocation is xrandr, then the activation
\* groups in the order in which the profile first mentions their outputs,
\* then the off groups in probe order (then the dry-run flag, if any).
C4_CommandOrder ==
    \A e \in Events : IsApply(e) => Body(e.argv) = ExpectedCommand

\* an apply invocation with two activation groups and an off group
C4_Witness ==
    /\ pc = "done" /\ ~NoApply
    /\ Cardinality(ProfileNames) = 2
    /\ Cardinality(ProbedNames) = 3
    /\ ProbedSeq[1] \notin ProfileNames

\* C5: after the loop the group stored for every output of the profile is
\* the one of the last specification naming it: --output n --pos XxY
\* (0x0 without a position) and --mode WxH or, without a mode, --auto;
\* n has one group only and occurs once in the command.
C5_LastSpecWins ==
    pc \in {"off", "assemble", "run"} =>
        \A n \in ProfileNames :
            /\ Cardinality({k \in 1..Len(arg_groups) :
                              arg_groups[k].key = StrKey(n)}) = 1
            /\ \A k \in 1..Len(arg_groups) :
                  arg_groups[k].key = StrKey(n) =>
                     arg_groups[k].val = ExpectedGroup(LastSpec(Profile, n))
            /\ pc = "run" =>
                  Cardinality({k \in 1..Len(xrandr_args) :
                                 xrandr_args[k] = n}) = 1

\* two specifications of one output, the last without mode and position
C5_Witness ==
    /\ pc = "run"
    /\ Len(Profile) = 2
    /\ Profile[1].output = Profile[2].output
    /\ Profile[1].mode # None /\ Profile[1].pos # None
    /\ Profile[2].mode = None /\ Profile[2].pos = None

\* C6: in a dry run the command ends with --dryrun and the line printed
\* right before the invocation is that command; otherwise the command has
\* no --dryrun and no command line is printed.
C6_DryRun ==
    /\ \A k \in 1..Len(trace) : IsApply(trace[k]) =>
          IF args.dry_run
          THEN /\ trace[k].argv[Len(trace[k].argv)] = "--dryrun"
               /\ k > 1
               /\ trace[k - 1] =
                     StdoutEvent("command: " \o Join(" ", trace[k].argv))
          ELSE /\ "--dryrun" \notin Tokens(trace[k].argv)
               /\ \A e \in Events : e.kind = "stdout" =>
                     e.text = "Activating display setup " \o DefinedSetup
    /\ (pc = "run" /\ args.dry_run) =>
          trace[Len(trace)] =
              StdoutEvent("command: " \o Join(" ", xrandr_args))

\* a finished dry run that invoked the apply command
C6_Witness ==
    pc = "done" /\ args.dry_run /\ ~NoApply

\* C7: when the apply invocation ran, the value returned to the caller and
\* the exit status of the process are the exit status of xrandr.
C7_ExitStatusPropagated ==
    (pc = "done" /\ result.kind = "CompletedProcess") =>
        exit_status = result.value

\* C8: a requested output that is reported as disconnected gets a warning
\* and the run goes on to the apply invocation, whose command is the one
\* determined by the names alone.
C8_DisconnectedNonFatal ==
    (Applying /\ Probed /\ Profile # <<>> /\ AllProbed) =>
        /\ \A k \in 1..Len(Profile) :
              ((Ended \/ i > k) /\ Profile[k].output \in Disconnected) =>
                 \E j \in 1..Len(trace) :
                    trace[j] = StderrEvent("warning: " \o Profile[k].output
                                           \o " is not connected")
        /\ Ended =>
              /\ result.kind = "CompletedProcess"
              /\ \E j \in 1..Len(trace) :
                    IsApply(trace[j]) /\ Body(trace[j].argv) = ExpectedCommand

\* a finished apply run of a setup with a disconnected output
C8_Witness ==
    /\ pc = "done" /\ Applying /\ AllProbed
    /\ ProfileNames \cap Disconnected # {}
    /\ ~NoApply

\* C9: result 3 is returned exactly for an existing setup without entries,
\* and then nothing is applied; a setup with entries ends with result 2
\* or with an apply invocation that has an activation group.
C9_ZeroOutputs ==
    Ended =>
        /\ result = IntResult(3) <=> (Applying /\ Profile = <<>>)
        /\ result = IntResult(3) => NoApply
        /\ (Applying /\ Profile # <<>>) =>
              \/ result = IntResult(2) /\ NoApply
              \/ /\ result.kind = "CompletedProcess"
                 /\ \E e \in Events : IsApply(e) /\ "--pos" \in Tokens(e.argv)

\* a finished run of the setup without entries
C9_Witness ==
    pc = "done" /\ result = IntResult(3) /\ Len(trace) = 3

\* C10 as stated: every finished apply run has made the query and the
\* apply invocation.
C10_EveryApplyRunInvokesTwice ==
    (pc = "done" /\ args.setup # None) =>
        /\ Len(RunEvents) = 2
        /\ IsQuery(RunEvents[1])
        /\ IsApply(RunEvents[2])

\* C10 amended: the subprocesses of a run are a prefix of (query, apply);
\* a run that returns xrandr's result has made both, a run with result 1
\* none, a run with result 2 or 3 the query only.
C10_QueryThenApplyOnce ==
    /\ Len(RunEvents) <= 2
    /\ Len(RunEvents) >= 1 => IsQuery(RunEvents[1])
    /\ Len(RunEvents) = 2 => IsApply(RunEvents[2])
    /\ Ended =>
          Len(RunEvents) = CASE result.kind = "CompletedProcess" -> 2
                             [] result \in {IntResult(2), IntResult(3)} -> 1
                             [] OTHER -> 0

\* a finished run with the query and the apply invocation
C10_Witness ==
    pc = "done" /\ Len(RunEvents) = 2 /\ result.kind = "CompletedProcess"

====
